---- MODULE Spec2Model ----
(***************************************************************************)
(* textify: the parallel discovery / classification / extraction /         *)
(* aggregation pipeline of convert_repository_to_text (src/src/core.rs)    *)
(* with the helpers of src/src/utils.rs.                                   *)
(*                                                                         *)
(* A file's content is a sequence of runs [b |-> byte, n |-> count], so    *)
(* that sizes around the megabyte threshold are represented exactly.       *)
(* A path is a sequence of components below the walked root.  A closure   *)
(* call of try_for_each is identified by the index of its candidate; at    *)
(* most NumWorkers calls run at a time.                                    *)
(***************************************************************************)
EXTENDS Integers, Sequences, FiniteSets, TLC

\* ------------------------------------------------------------------ bounds

\* rayon worker threads running the closure of try_for_each
NumWorkers == 2

\* files present under the walked root in one run
MaxFiles == 2

\* runs of equal bytes in the content of a file given to is_binary_file
MaxRuns == 2

\* the longest path string, in tokens
MaxTokens == 5

\* ------------------------------------------------------- program constants

\* 1024.0 * 1024.0, core.rs:32
BytesPerMb == 1048576

\* utils.rs:162
SAMPLE_SIZE == 8192

\* the value of a lock that no closure call holds
NoCall == 0

\* ------------------------------------------------------------ pure helpers

RECURSIVE RunsLen(_)
\* number of bytes of a run-length encoded content (metadata.len())
RunsLen(runs) ==
    IF runs = <<>> THEN 0 ELSE Head(runs).n + RunsLen(Tail(runs))

\* a sample that is the whole file
TakeAllBytes(runs, k) == runs

RECURSIVE TakeBytes(_, _)
\* &bytes[..k] on a run-length encoded content
TakeBytes(runs, k) ==
    IF runs = <<>> \/ k = 0 THEN <<>>
    ELSE IF Head(runs).n >= k THEN << [b |-> Head(runs).b, n |-> k] >>
    ELSE << Head(runs) >> \o TakeBytes(Tail(runs), k - Head(runs).n)

Min(a, b) == IF a <= b THEN a ELSE b

\* sample.contains(&0)
ContainsNul(sample) == \E i \in 1..Len(sample) : sample[i].b = 0 /\ sample[i].n > 0

\* b < 32 && b != 9 && b != 10 && b != 13
NonPrintable(b) == b < 32 /\ b # 9 /\ b # 10 /\ b # 13

RECURSIVE NonPrintableCount(_)
NonPrintableCount(sample) ==
    IF sample = <<>> THEN 0
    ELSE (IF NonPrintable(Head(sample).b) THEN Head(sample).n ELSE 0)
         + NonPrintableCount(Tail(sample))

\* the known binary extensions of is_binary_file, lower case
BinaryExtensions ==
    { "jpg", "jpeg", "png", "gif", "bmp", "tiff", "ico", "svg", "webp",
      "mp4", "avi", "mov", "wmv", "flv", "webm", "mkv",
      "mp3", "wav", "flac", "aac", "ogg", "wma",
      "pdf", "doc", "docx", "xls", "xlsx", "ppt", "pptx",
      "zip", "tar", "gz", "bz2", "7z", "rar", "dmg",
      "exe", "dll", "so", "dylib", "bin",
      "ttf", "otf", "woff", "woff2", "eot",
      "db", "sqlite", "sqlite3" }

ExcludedDirs ==
    { "node_modules", ".git", ".svn", ".hg", "target", "build", "dist",
      ".vscode", ".idea", "__pycache__", ".pytest_cache", "coverage",
      ".nyc_output", "vendor", "deps" }

ExcludedPatterns ==
    { ".DS_Store", "Thumbs.db", "Desktop.ini", ".gitignore", ".gitkeep",
      ".dockerignore", "Dockerfile", "Cargo.lock", "package-lock.json",
      "yarn.lock", "pnpm-lock.yaml", "composer.lock", "go.sum" }

\* str::to_lowercase on the path components that occur in the model
ToLower(s) ==
    CASE s = "README.md"    -> "readme.md"
      [] s = "Node_Modules" -> "node_modules"
      [] s = "PNG"          -> "png"
      [] s = ".DS_Store"    -> ".ds_store"
      [] s = "Build"        -> "build"
      [] s = "Cargo.lock"   -> "cargo.lock"
      [] OTHER              -> s

\* Path::extension of a final component, "" when there is none
Extension(name) ==
    CASE name = "README.md" -> "md"
      [] name = "lib.js"    -> "js"
      [] name = "photo.PNG" -> "PNG"
      [] name = "photo.png" -> "png"
      [] name = "big.log"   -> "log"
      [] name = "perf.log"  -> "log"
      [] name = "proj.textify.txt" -> "txt"
      [] name = "edge.txt"  -> "txt"
      [] name = "over.txt"  -> "txt"
      [] name = "empty.txt" -> "txt"
      [] OTHER              -> ""

\* the walked root, absolute: /home/proj
repo_path == << "home", "proj" >>

\* ------------------------------------------------------------- utils.rs

\* an emptiness test that only notices a vanished path
IsFileNonexistent(exists, size) == ~exists

\* is_file_empty_or_nonexistent: exists is FALSE for a vanished path
IsFileEmptyOrNonexistent(exists, size) ==
    IF ~exists THEN TRUE ELSE size = 0

\* A path string is a sequence of tokens: "/", "\\" and maximal runs of
\* other characters (names).

RECURSIVE PathString(_)
\* the string of the absolute path with the given components
PathString(segs) ==
    IF segs = << >> THEN << >>
    ELSE << "/", Head(segs) >> \o PathString(Tail(segs))

\* path.to_string_lossy().to_lowercase()
LowerString(str) == [k \in 1..Len(str) |-> ToLower(str[k])]

\* str::contains(&format!("{sep}{name}{sep}"))
ContainsBetween(str, sep, name) ==
    \E k \in 1..(Len(str) - 2) :
        str[k] = sep /\ str[k + 1] = name /\ str[k + 2] = sep

\* str::starts_with(&format!("{name}{sep}"))
StartsWithThen(str, name, sep) ==
    Len(str) >= 2 /\ str[1] = name /\ str[2] = sep

\* the start of the final component: path.file_name() splits at "/" only
LastSlash(str) ==
    IF \E k \in 1..Len(str) : str[k] = "/"
    THEN CHOOSE k \in 1..Len(str) :
            str[k] = "/" /\ \A j \in (k + 1)..Len(str) : str[j] # "/"
    ELSE 0

\* path.file_name().and_then(|n| n.to_str()).unwrap_or("")
FileName(str) == SubSeq(str, LastSlash(str) + 1, Len(str))

\* the directory test of should_exclude_file for one name, utils.rs:95-98
\* a directory test that looks at the start of the string only
DirMatchesAtStart(low, excluded) ==
    \/ StartsWithThen(low, excluded, "/")
    \/ StartsWithThen(low, excluded, "\\")

DirMatches(low, excluded) ==
    \/ ContainsBetween(low, "/", excluded)
    \/ StartsWithThen(low, excluded, "/")
    \/ ContainsBetween(low, "\\", excluded)
    \/ StartsWithThen(low, excluded, "\\")

\* should_exclude_file on a path string
ShouldExcludeFile(path_str, exists, size) ==
    IF \E excluded \in ExcludedDirs : DirMatches(LowerString(path_str), excluded)
    THEN TRUE
    ELSE IF \E pattern \in ExcludedPatterns : FileName(path_str) = << pattern >>
    THEN TRUE
    ELSE IF IsFileEmptyOrNonexistent(exists, size) THEN TRUE
    ELSE FALSE

\* the extension fast path of is_binary_file, utils.rs:142-159
HasBinaryExtension(name) ==
    Extension(name) # "" /\ ToLower(Extension(name)) \in BinaryExtensions

\* is_binary_file that takes an unreadable file for binary
IsBinaryFileFailClosed(name, content, readable) ==
    IF HasBinaryExtension(name) THEN TRUE
    ELSE IF readable
    THEN LET sample == TakeBytes(content, Min(RunsLen(content), SAMPLE_SIZE))
         IN  IF ContainsNul(sample) THEN TRUE
             ELSE RunsLen(sample) > 0
                  /\ 10 * NonPrintableCount(sample) > 3 * RunsLen(sample)
    ELSE TRUE

\* is_binary_file: readable is the outcome of fs::read
IsBinaryFile(name, content, readable) ==
    IF HasBinaryExtension(name)
    THEN TRUE
    ELSE IF readable
    THEN LET sample == TakeBytes(content, Min(RunsLen(content), SAMPLE_SIZE))
         IN  IF ContainsNul(sample) THEN TRUE
             \* non_printable_count / sample.len() > 0.3; 0/0 is NaN, not > 0.3
             ELSE RunsLen(sample) > 0
                  /\ 10 * NonPrintableCount(sample) > 3 * RunsLen(sample)
    ELSE FALSE

\* (threshold_mb * 1024.0 * 1024.0) as u64 for the rational t.num / t.den:
\* the cast truncates toward zero and saturates a negative value to 0
ThresholdBytes(t) ==
    IF t.num < 0 THEN 0 ELSE (t.num * BytesPerMb) \div t.den

\* a comparison that also excludes a file of exactly the threshold
IsOversizeOrEqual(file_size, threshold_bytes) == file_size >= threshold_bytes

\* file_size > threshold_bytes
IsOversize(file_size, threshold_bytes) == file_size > threshold_bytes

\* --------------------------------------------------------------- inputs

\* --threshold values: 0.1 (the default, main.rs:32) and 1.0
Thresholds == { [num |-> 1, den |-> 10], [num |-> 1, den |-> 1] }

Text(n) == << [b |-> 97, n |-> n] >>

\* the default of --threshold, main.rs:32-33
Thresholds0 == [num |-> 1, den |-> 10]

\* the files that may be present under the root, by name; the sizes of
\* edge.txt, over.txt and photo.PNG sit on the threshold boundary
Catalogue(t) ==
    [ readme |-> [path |-> << "README.md" >>, content |-> Text(50)],
      lib    |-> [path |-> << "Node_Modules", "lib.js" >>, content |-> Text(50)],
      photo  |-> [path |-> << "photo.PNG" >>,
                  content |-> << [b |-> 137, n |-> 1],
                                 [b |-> 0, n |-> ThresholdBytes(t)] >>],
      edge   |-> [path |-> << "edge.txt" >>, content |-> Text(ThresholdBytes(t))],
      over   |-> [path |-> << "over.txt" >>,
                  content |-> Text(ThresholdBytes(t) + 1)],
      empty  |-> [path |-> << "empty.txt" >>, content |-> << >>],
      blob   |-> [path |-> << "blob" >>,
                  content |-> << [b |-> 97, n |-> 10], [b |-> 0, n |-> 1] >>],
      libjs  |-> [path |-> << "node_modules", "lib.js" >>, content |-> Text(50)],
      png    |-> [path |-> << "photo.png" >>, content |-> Text(50)],
      biglog |-> [path |-> << "big.log" >>, content |-> Text(2 * BytesPerMb)] ]

FileIds == { "readme", "lib", "photo", "edge", "over", "empty", "blob" }

\* the order in which WalkDir yields the entries (any fixed order: the
\* workers take candidates in every order)
WalkRank(id) ==
    CASE id = "readme" -> 1 [] id = "lib" -> 2 [] id = "photo" -> 3
      [] id = "edge" -> 4 [] id = "over" -> 5 [] id = "empty" -> 6
      [] id = "blob" -> 7 [] id = "libjs" -> 8 [] id = "png" -> 9
      [] id = "biglog" -> 10

RECURSIVE WalkOrder(_)
WalkOrder(ids) ==
    IF ids = {} THEN << >>
    ELSE LET first == CHOOSE x \in ids : \A y \in ids : WalkRank(x) <= WalkRank(y)
         IN  << first >> \o WalkOrder(ids \ {first})

\* ---------------------------------------------------------------- state

VARIABLES
    tree,             \* the ids of the files under repo_path
    threshold_mb,     \* argument threshold_mb, a rational
    include_all,      \* argument include_all
    pcMain,           \* where the calling thread is in convert_repository_to_text
    result,           \* "none" while running, then "ok" or "err"
    files,            \* the Vec of candidates collected by discovery
    call,             \* per candidate index, its closure call:
                      \*   pc, size, tmp, content, sent
    full,             \* try_for_each has seen an Err
    output_lock,      \* holder of Mutex output_file
    processed_lock,   \* holder of Mutex processed_files
    skipped_lock,     \* holder of Mutex skipped_files
    processed_files,
    skipped_files,
    out,              \* the bytes accepted by the output writer, in pieces
    flushes,          \* calls of writer.flush()
    stdout,           \* the lines println! has written, in order
    extractFailed,    \* per candidate index: read_file_content returned Err
    sampleFailed,     \* per candidate index: fs::read in is_binary_file failed
    errors,           \* the Err values returned by closure calls
    startedAtErr,     \* history: the calls begun when the first Err was returned
    outAtErr,         \* history: out when the first Err was returned
    arg,              \* a helper or main() run on its own: its arguments
    ret,              \* ... what it has returned or done so far
    at                \* ... and where it is; "pipeline" when none is run

vars ==
    << tree, threshold_mb, include_all, pcMain, result, files, call, full,
       output_lock, processed_lock, skipped_lock, processed_files,
       skipped_files, out, flushes, stdout, extractFailed, sampleFailed, errors,
       startedAtErr, outAtErr, arg, ret, at >>

FileOf(i) == Catalogue(threshold_mb)[files[i]]

Candidates == DOMAIN call

\* a closure call that has not begun
NewCall ==
    [pc |-> "unstarted", size |-> 0, tmp |-> 0, content |-> << >>, sent |-> 0]

\* the ways a closure call ends: Ok(()) at core.rs:113, Ok(()) at
\* core.rs:149, Err through a `?`
EndStates == { "skipped", "processed", "error" }

Started == { i \in Candidates : call[i].pc # "unstarted" }

InFlight == { i \in Started : call[i].pc \notin EndStates }

Ended(kind) == { i \in Candidates : call[i].pc = kind }

Init ==
    /\ tree \in { s \in SUBSET FileIds : Cardinality(s) <= MaxFiles }
    /\ threshold_mb \in Thresholds
    /\ include_all \in BOOLEAN
    /\ pcMain = "create"
    /\ result = "none"
    /\ files = << >>
    /\ call = << >>
    /\ full = FALSE
    /\ output_lock = NoCall
    /\ processed_lock = NoCall
    /\ skipped_lock = NoCall
    /\ processed_files = 0
    /\ skipped_files = 0
    /\ out = << >>
    /\ flushes = 0
    /\ stdout = << >>
    /\ extractFailed = << >>
    /\ sampleFailed = << >>
    /\ errors = {}
    /\ startedAtErr = {}
    /\ outAtErr = << >>
    /\ arg = << >>
    /\ ret = << >>
    /\ at = "pipeline"

\* ------------------------------------------------------------ operations

\* a lock that excludes nobody
CanLockAlways(holder) == TRUE

\* Mutex::lock returns only when no thread holds the guard
CanLock(holder) == holder = NoCall

\* a guard that is never dropped
UnlockNever(holder) == holder

\* the MutexGuard is dropped: at the end of its statement (core.rs:111,
\* 147), of its block (core.rs:145) or by the early return of `?`
Unlock(holder) == NoCall

\* a counter written back as it was loaded
IncrementLost(loaded) == loaded

\* the guarded `+= 1` on a counter value loaded under the lock
Increment(loaded) == loaded + 1

\* a thread of the pool is free to run one more closure call
HasFreeWorker(inFlight) == Cardinality(inFlight) < NumWorkers

\* try_for_each that goes on handing out items after an Err
MayStartAlways(seenErr) == TRUE

\* try_for_each starts a closure call only while it has seen no Err
MayStart(seenErr) == ~seenErr

\* try_for_each that returns as soon as an Err was seen or every item was
\* handed out
JoinedEarly(inFlight, seenErr, nStarted, nFiles) ==
    seenErr \/ nStarted = nFiles

\* try_for_each returns when no closure call is in flight and either an
\* Err was seen or every item has been handed out
Joined(inFlight, seenErr, nStarted, nFiles) ==
    /\ inFlight = {}
    /\ (seenErr \/ nStarted = nFiles)

\* an Err of try_for_each that is dropped
PropagatesNever(seenErr) == FALSE

\* the `?` on the value of try_for_each, core.rs:150
Propagates(seenErr) == seenErr

\* read_file_content(path, size): the text payload, strictly decoded or,
\* for bytes that are not UTF-8, lossily; Err on an I/O error
ReadFileContent(content, ioOk) ==
    IF ~ioOk THEN [ok |-> FALSE, text |-> ""]
    ELSE IF \E i \in 1..Len(content) : content[i].b >= 128
    THEN [ok |-> TRUE, text |-> "lossy text"]
    ELSE [ok |-> TRUE, text |-> "text"]

\* an Err arm that pushes nothing
PayloadNoMarker(read) ==
    IF read.ok THEN read.text ELSE ""

\* the payload pushed by the match on read_file_content, core.rs:128-138
Payload(read) ==
    IF read.ok THEN read.text ELSE "[Binary file or read error]"

\* the record without its trailing blank line
RecordOfNoEnd(id, file_size, payload) ==
    << [file |-> id, part |-> "header", size |-> file_size, body |-> ""],
       [file |-> id, part |-> "payload", size |-> file_size, body |-> payload] >>

\* the String built at core.rs:117-139, in the pieces write_all hands on
RecordOf(id, file_size, payload) ==
    << [file |-> id, part |-> "header", size |-> file_size, body |-> ""],
       [file |-> id, part |-> "payload", size |-> file_size, body |-> payload],
       [file |-> id, part |-> "end", size |-> file_size, body |-> ""] >>

\* should_skip that applies the two rules whatever include_all is
ShouldSkipIgnoringAll(all, binary, file_size, threshold_bytes) ==
    binary \/ IsOversize(file_size, threshold_bytes)

\* should_skip, core.rs:85-108
ShouldSkip(all, binary, file_size, threshold_bytes) ==
    IF ~all
    THEN IF binary THEN TRUE
         ELSE IF IsOversize(file_size, threshold_bytes) THEN TRUE
         ELSE FALSE
    ELSE FALSE

Set(i, fields) == [call EXCEPT ![i] = fields]

\* a closure call returns Err: try_for_each records it
Fail(i, cause) ==
    /\ call' = Set(i, [NewCall EXCEPT !.pc = "error"])
    /\ errors' = errors \cup { [file |-> i, cause |-> cause] }
    /\ full' = TRUE
    /\ startedAtErr' = IF full THEN startedAtErr ELSE Started
    /\ outAtErr' = IF full THEN outAtErr ELSE out

NoFail == UNCHANGED << full, errors, startedAtErr, outAtErr >>

\* the arguments of the run, and the helpers' own state, which the
\* pipeline never touches
Config == << tree, threshold_mb, include_all, arg, ret, at >>

Locks == << output_lock, processed_lock, skipped_lock >>

Counters == << processed_files, skipped_files >>

Main == << pcMain, result, files >>

Reads == << extractFailed, sampleFailed >>

\* fs::File::create(output_path)?, core.rs:30
Create ==
    /\ pcMain = "create"
    /\ \E ok \in BOOLEAN :
         IF ok THEN pcMain' = "discover" /\ result' = result
         ELSE pcMain' = "returned" /\ result' = "err"
    /\ NoFail
    /\ UNCHANGED << Config, files, call, Locks, Counters, out, flushes, stdout, Reads >>

\* an empty check that never finds the list empty
IsEmptyNever(found) == FALSE

\* files.is_empty(), core.rs:53
IsEmpty(found) == found = << >>

\* the WalkDir pipeline and the empty check, core.rs:41-56
Discover ==
    /\ pcMain = "discover"
    /\ LET kept == { id \in tree :
                       ~ShouldExcludeFile(
                           PathString(repo_path \o Catalogue(threshold_mb)[id].path),
                           TRUE,
                           RunsLen(Catalogue(threshold_mb)[id].content)) }
           found == WalkOrder(kept)
       IN  /\ files' = found
           /\ call' = [i \in 1..Len(found) |-> NewCall]
           /\ extractFailed' = [i \in 1..Len(found) |-> FALSE]
           /\ sampleFailed' = [i \in 1..Len(found) |-> FALSE]
           /\ IF IsEmpty(found)
              THEN /\ stdout' = Append(stdout, "No files found to process")
                   /\ pcMain' = "returned"
                   /\ result' = "ok"
              ELSE /\ stdout' = stdout
                   /\ pcMain' = "process"
                   /\ result' = result
    /\ NoFail
    /\ UNCHANGED << Config, Locks, Counters, out, flushes >>

\* try_for_each hands item i to a thread of the pool, core.rs:77
Take(i) ==
    /\ pcMain = "process"
    /\ call[i].pc = "unstarted"
    /\ HasFreeWorker(InFlight)
    /\ MayStart(full)
    /\ call' = Set(i, [call[i] EXCEPT !.pc = "metadata"])
    /\ NoFail
    /\ UNCHANGED << Config, Main, Locks, Counters, out, flushes, stdout, Reads >>

\* fs::metadata(file_path)?, core.rs:78-82
Metadata(i) ==
    /\ call[i].pc = "metadata"
    /\ \E ok \in BOOLEAN :
         IF ok
         THEN /\ call' = Set(i, [call[i] EXCEPT
                        !.pc = "classify",
                        !.size = RunsLen(FileOf(i).content)])
              /\ NoFail
         ELSE Fail(i, "metadata")
    /\ UNCHANGED << Config, Main, Locks, Counters, out, flushes, stdout, Reads >>

\* the inclusion check, core.rs:85-110
Classify(i) ==
    /\ call[i].pc = "classify"
    /\ \E readable \in BOOLEAN :
         LET f == FileOf(i)
             name == f.path[Len(f.path)]
             binary == IsBinaryFile(name, f.content, readable)
         IN  /\ IF ShouldSkip(include_all, binary, call[i].size,
                              ThresholdBytes(threshold_mb))
                THEN call' = Set(i, [call[i] EXCEPT !.pc = "lock_skipped"])
                ELSE call' = Set(i, [call[i] EXCEPT !.pc = "extract"])
             /\ sampleFailed' = [sampleFailed EXCEPT ![i] =
                    ~include_all /\ ~HasBinaryExtension(name) /\ ~readable]
    /\ NoFail
    /\ UNCHANGED << Config, Main, Locks, Counters, out, flushes, stdout, extractFailed >>

\* skipped_files.lock(), core.rs:111
LockSkipped(i) ==
    /\ call[i].pc = "lock_skipped"
    /\ CanLock(skipped_lock)
    /\ skipped_lock' = i
    /\ call' = Set(i, [call[i] EXCEPT !.pc = "inc_skipped", !.tmp = skipped_files])
    /\ NoFail
    /\ UNCHANGED << Config, Main, output_lock, processed_lock, Counters, out,
                    flushes, stdout, Reads >>

\* += 1, the guard dropped, return Ok(()), core.rs:111-113
IncSkipped(i) ==
    /\ call[i].pc = "inc_skipped"
    /\ skipped_files' = Increment(call[i].tmp)
    /\ skipped_lock' = Unlock(skipped_lock)
    /\ call' = Set(i, [NewCall EXCEPT !.pc = "skipped"])
    /\ NoFail
    /\ UNCHANGED << Config, Main, output_lock, processed_lock, processed_files,
                    out, flushes, stdout, Reads >>

\* the content String is built, core.rs:117-139
Extract(i) ==
    /\ call[i].pc = "extract"
    /\ \E ioOk \in BOOLEAN :
         LET read == ReadFileContent(FileOf(i).content, ioOk)
         IN  /\ call' = Set(i, [call[i] EXCEPT
                        !.pc = "lock_output",
                        !.content = RecordOf(files[i], call[i].size, Payload(read))])
             /\ extractFailed' = [extractFailed EXCEPT ![i] = ~read.ok]
    /\ NoFail
    /\ UNCHANGED << Config, Main, Locks, Counters, out, flushes, stdout, sampleFailed >>

\* output_file.lock(), core.rs:143
LockOutput(i) ==
    /\ call[i].pc = "lock_output"
    /\ CanLock(output_lock)
    /\ output_lock' = i
    /\ call' = Set(i, [call[i] EXCEPT !.pc = "write"])
    /\ NoFail
    /\ UNCHANGED << Config, Main, processed_lock, skipped_lock, Counters, out,
                    flushes, stdout, Reads >>

\* writer.write_all(content.as_bytes())?, one piece at a time; the guard
\* is dropped at the end of the block or by the early return, core.rs:144-145
Write(i) ==
    /\ call[i].pc = "write"
    /\ \E ok \in BOOLEAN :
         IF ok
         THEN LET n == call[i].sent + 1
              IN  /\ out' = Append(out, call[i].content[n])
                  /\ IF n = Len(call[i].content)
                     THEN /\ call' = Set(i, [NewCall EXCEPT !.pc = "lock_processed"])
                          /\ output_lock' = Unlock(output_lock)
                     ELSE /\ call' = Set(i, [call[i] EXCEPT !.sent = n])
                          /\ output_lock' = output_lock
                  /\ NoFail
         ELSE /\ Fail(i, "write")
              /\ output_lock' = Unlock(output_lock)
              /\ out' = out
    /\ UNCHANGED << Config, Main, processed_lock, skipped_lock, Counters,
                    flushes, stdout, Reads >>

\* processed_files.lock(), core.rs:147
LockProcessed(i) ==
    /\ call[i].pc = "lock_processed"
    /\ CanLock(processed_lock)
    /\ processed_lock' = i
    /\ call' = Set(i, [call[i] EXCEPT !.pc = "inc_processed",
                                      !.tmp = processed_files])
    /\ NoFail
    /\ UNCHANGED << Config, Main, output_lock, skipped_lock, Counters, out,
                    flushes, stdout, Reads >>

\* += 1, the guard dropped, Ok(()), core.rs:147-149
IncProcessed(i) ==
    /\ call[i].pc = "inc_processed"
    /\ processed_files' = Increment(call[i].tmp)
    /\ processed_lock' = Unlock(processed_lock)
    /\ call' = Set(i, [NewCall EXCEPT !.pc = "processed"])
    /\ NoFail
    /\ UNCHANGED << Config, Main, output_lock, skipped_lock, skipped_files, out,
                    flushes, stdout, Reads >>

\* try_for_each(...)? returns, core.rs:150
Join ==
    /\ pcMain = "process"
    /\ Joined(InFlight, full, Cardinality(Started), Len(files))
    /\ IF Propagates(full)
       THEN pcMain' = "returned" /\ result' = "err"
       ELSE pcMain' = "flush" /\ result' = result
    /\ NoFail
    /\ UNCHANGED << Config, files, call, Locks, Counters, out, flushes, stdout, Reads >>

\* writer.flush()?, the summary and Ok(()), core.rs:163-187
Flush ==
    /\ pcMain = "flush"
    /\ CanLock(output_lock)
    /\ flushes' = flushes + 1
    /\ pcMain' = "returned"
    /\ \E ok \in BOOLEAN :
         IF ok
         THEN /\ result' = "ok"
              /\ stdout' = Append(stdout, "Processed and skipped counts")
         ELSE /\ result' = "err"
              /\ stdout' = stdout
    /\ NoFail
    /\ UNCHANGED << Config, files, call, Locks, Counters, out, Reads >>

Next ==
    \/ Create
    \/ Discover
    \/ \E i \in Candidates : Take(i)
    \/ \E i \in Candidates : Metadata(i)
    \/ \E i \in Candidates : Classify(i)
    \/ \E i \in Candidates : LockSkipped(i)
    \/ \E i \in Candidates : IncSkipped(i)
    \/ \E i \in Candidates : Extract(i)
    \/ \E i \in Candidates : LockOutput(i)
    \/ \E i \in Candidates : Write(i)
    \/ \E i \in Candidates : LockProcessed(i)
    \/ \E i \in Candidates : IncProcessed(i)
    \/ Join
    \/ Flush

Spec == Init /\ [][Next]_vars

\* the pipeline's variables
Pipeline ==
    << tree, threshold_mb, include_all, pcMain, result, files, call, full,
       output_lock, processed_lock, skipped_lock, processed_files,
       skipped_files, out, flushes, stdout, extractFailed, sampleFailed, errors,
       startedAtErr, outAtErr >>

\* the pipeline is not run: a helper or main() is looked at on its own
NoPipeline ==
    /\ tree = {}
    /\ threshold_mb = [num |-> 1, den |-> 10]
    /\ include_all = FALSE
    /\ pcMain = "none"
    /\ result = "none"
    /\ files = << >>
    /\ call = << >>
    /\ full = FALSE
    /\ output_lock = NoCall
    /\ processed_lock = NoCall
    /\ skipped_lock = NoCall
    /\ processed_files = 0
    /\ skipped_files = 0
    /\ out = << >>
    /\ flushes = 0
    /\ stdout = << >>
    /\ extractFailed = << >>
    /\ sampleFailed = << >>
    /\ errors = {}
    /\ startedAtErr = {}
    /\ outAtErr = << >>

\* ------------------------------------------------------------- properties

\* the pieces of the output that belong to the candidate with index i
PiecesOf(i) == SelectSeq(out, LAMBDA c : c.file = files[i])

PartsOf(i) == [k \in 1..Len(PiecesOf(i)) |-> PiecesOf(i)[k].part]

WholeRecord == << "header", "payload", "end" >>

ReturnedOk == pcMain = "returned" /\ result = "ok"

\* C1: when the run returns Ok after a non-empty candidate list, the final
\* processed_files + skipped_files equals the number of candidates, and each
\* counter equals the number of candidates that ended that way (no increment
\* lost, none counted twice), under every interleaving of the workers.
C1_CountsAddUp ==
    (ReturnedOk /\ files # << >>) =>
        /\ processed_files + skipped_files = Len(files)
        /\ processed_files = Cardinality(Ended("processed"))
        /\ skipped_files = Cardinality(Ended("skipped"))

C1_Witness ==
    /\ ReturnedOk
    /\ Len(files) >= 2
    /\ processed_files >= 1
    /\ skipped_files >= 1

\* C2: a candidate handled to its end is either skipped, with no byte of it in
\* the output and skipped_files counting it once, or processed, with exactly
\* one whole record of it in the output and processed_files counting it once;
\* never both, never neither, and never two records of one candidate.
C2_ExactlyOneOutcome ==
    /\ \A i \in Ended("skipped") : PartsOf(i) = << >>
    /\ \A i \in Ended("processed") : PartsOf(i) = WholeRecord
    /\ \A i \in Candidates :
         call[i].pc \in {"lock_processed", "inc_processed"}
            => PartsOf(i) = WholeRecord
    /\ \A i \in Candidates :
         call[i].pc \in {"lock_skipped", "inc_skipped"} => PartsOf(i) = << >>
    /\ InFlight = {} =>
         /\ processed_files = Cardinality(Ended("processed"))
         /\ skipped_files = Cardinality(Ended("skipped"))

C2_Witness ==
    /\ InFlight = {}
    /\ Ended("skipped") # {}
    /\ Ended("processed") # {}
    /\ Len(out) = 3

\* C3: the pieces of one record are contiguous in the output: no piece of
\* another record lies between two pieces of the same record, under every
\* interleaving of the workers.  (A piece whose record has a later piece is
\* directly followed by a piece of the same record.)
C3_RecordsContiguous ==
    \A i, k \in 1..Len(out) :
        (i < k /\ out[i].file = out[k].file) => out[i + 1].file = out[i].file

C3_Witness ==
    \E i, j \in Candidates :
        /\ call[i].pc = "write"
        /\ call[i].sent >= 1
        /\ call[j].pc = "lock_output"
        /\ output_lock = i

\* C4 as stated: every run that returns Ok has called flush exactly once,
\* the run in which discovery finds zero candidates included.
C4_FlushOnceEveryOkRun == ReturnedOk => flushes = 1

\* C4, amended: a run that returns Ok after discovery found at least one
\* candidate has called flush exactly once, after every worker completed its
\* last append and before success is returned; flush is never called twice,
\* never while a closure call is in flight or unstarted, never after an Err;
\* the run with zero candidates returns Ok without calling flush, having
\* written nothing.
C4_FlushOnceAfterWorkers ==
    /\ flushes <= 1
    /\ (ReturnedOk /\ files # << >>) => flushes = 1
    /\ flushes = 1 =>
         /\ pcMain = "returned"
         /\ \A i \in Candidates : call[i].pc \in {"skipped", "processed"}
         /\ output_lock = NoCall
         /\ Len(out) = Len(WholeRecord) * Cardinality(Ended("processed"))
    /\ (ReturnedOk /\ files = << >>) => (flushes = 0 /\ out = << >>)

C4_Witness ==
    /\ ReturnedOk
    /\ flushes = 1
    /\ Len(files) = 2
    /\ Len(out) = 6

\* C5: when fs::metadata fails for a candidate or a write to the output
\* fails in a worker, the run returns an error, never Ok; a run whose
\* processing returns an error has had such a failure (a candidate skipped
\* as binary or oversized does not make the run fail): with every started
\* candidate skipped or processed, the run goes on to flush.
C5_FatalErrorsSurface ==
    /\ (pcMain = "returned" /\ errors # {}) => result = "err"
    /\ (pcMain \in {"flush", "returned"} /\ Ended("error") # {}) => result = "err"
    /\ \A i \in Ended("error") :
         \E e \in errors : e.file = i /\ e.cause \in {"metadata", "write"}
    /\ (pcMain = "returned" /\ result = "err" /\ files # << >> /\ flushes = 0)
         => errors # {}
    /\ (pcMain = "returned" /\ files # << >> /\ Ended("error") = {})
         => flushes = 1

C5_Witness ==
    /\ pcMain = "returned"
    /\ result = "err"
    /\ Ended("skipped") # {}
    /\ \E e \in errors : e.cause = "write"

\* C6: when read_file_content fails for a candidate, the worker goes on to
\* append a whole record whose payload is the marker
\* "[Binary file or read error]" and counts the candidate as processed; the
\* call returns Err only when the write itself fails, so the extraction
\* failure never aborts the run, and the other candidates' records keep
\* their own payload.
C6_ExtractErrorBecomesMarker ==
    /\ \A i \in Candidates :
         extractFailed[i] =>
            /\ call[i].pc \in { "lock_output", "write", "lock_processed",
                                "inc_processed", "processed", "error" }
            /\ call[i].pc = "error" => [file |-> i, cause |-> "write"] \in errors
            /\ \A k \in 1..Len(PiecesOf(i)) :
                 PiecesOf(i)[k].part = "payload"
                    => PiecesOf(i)[k].body = "[Binary file or read error]"
            /\ call[i].pc = "processed" => PartsOf(i) = WholeRecord
    /\ \A i \in Candidates :
         ~extractFailed[i] =>
            \A k \in 1..Len(PiecesOf(i)) :
                PiecesOf(i)[k].part = "payload"
                   => PiecesOf(i)[k].body \in {"text", "lossy text"}
    /\ (pcMain = "returned" /\ errors = {} /\ files # << >>) => flushes = 1

C6_Witness ==
    /\ ReturnedOk
    /\ \E i, j \in Candidates :
         /\ extractFailed[i]
         /\ ~extractFailed[j]
         /\ call[i].pc = "processed"
         /\ call[j].pc = "processed"

\* the file of candidate i is not binary: neither by extension nor by sample
NotBinary(i) ==
    LET f == FileOf(i) IN ~IsBinaryFile(f.path[Len(f.path)], f.content, TRUE)

\* the byte length of candidate i exceeds threshold_mb * 1,048,576, compared
\* as rationals
OverThreshold(i) ==
    RunsLen(FileOf(i).content) * threshold_mb.den > threshold_mb.num * BytesPerMb

\* fs::metadata failed in the closure call of candidate i
StatFailed(i) == [file |-> i, cause |-> "metadata"] \in errors

\* the file of candidate i holds bytes that are not UTF-8
Undecodable(i) == \E k \in 1..Len(FileOf(i).content) : FileOf(i).content[k].b >= 128

\* C7 as stated: a candidate that cannot be stat'd, opened or decoded never
\* aborts the run: its closure call does not return Err for that (only a
\* failed write of its record can make it return Err), so that it ends as a
\* skip or as a record.
C7_SoftFailureNeverAborts ==
    \A i \in Candidates :
        (StatFailed(i) \/ sampleFailed[i] \/ extractFailed[i]) =>
            (call[i].pc = "error" => [file |-> i, cause |-> "write"] \in errors)

\* C7, amended: a candidate whose bytes cannot be read for the binary check
\* or for extraction, or cannot be decoded, does not by that failure abort
\* the run: an unreadable sample counts as not binary, the candidate goes on
\* to the size rule and ends as a skip or as a record (with the marker when
\* extraction failed), its call returns Err only if its write fails, and a
\* run without metadata or write failure reaches flush.  A candidate that
\* cannot be stat'd in the worker is fatal: its call returns Err and the run
\* returns an error.
C7_OnlyReadFailuresAreSoft ==
    /\ \A i \in Candidates :
         (sampleFailed[i] \/ extractFailed[i] \/ Undecodable(i)) =>
            /\ call[i].pc = "error" =>
                 (StatFailed(i) \/ [file |-> i, cause |-> "write"] \in errors)
            /\ (call[i].pc = "processed" /\ extractFailed[i]) =>
                 PiecesOf(i)[2].body = "[Binary file or read error]"
    /\ \A i \in Candidates :
         (sampleFailed[i] /\ call[i].pc \in {"lock_skipped", "inc_skipped", "skipped"})
            => OverThreshold(i)
    /\ \A i \in Candidates :
         StatFailed(i) =>
            /\ call[i].pc = "error"
            /\ pcMain = "returned" => result = "err"
    /\ (pcMain = "returned" /\ errors = {} /\ files # << >>) => flushes = 1

C7_Witness ==
    /\ ReturnedOk
    /\ \E i, j \in Candidates :
         /\ sampleFailed[i]
         /\ extractFailed[i]
         /\ call[i].pc = "processed"
         /\ sampleFailed[j]
         /\ call[j].pc = "skipped"

RECURSIVE IsPrefix(_, _)
IsPrefix(s, t) ==
    IF s = << >> THEN TRUE
    ELSE IF t = << >> THEN FALSE
    ELSE Head(s) = Head(t) /\ IsPrefix(Tail(s), Tail(t))

C8_WitnessInFlight ==
    /\ pcMain = "returned"
    /\ result = "err"
    /\ Len(out) > Len(outAtErr)
    /\ outAtErr # << >>

\* C9: with include_all not set, a candidate that is not binary is skipped
\* exactly when its byte length is strictly greater than threshold_mb times
\* 1,048,576: a file of exactly the threshold is included (it goes on to
\* extraction), a file one byte larger is skipped.
C9_StrictlyGreaterThanThreshold ==
    ~include_all =>
        \A i \in Candidates :
            NotBinary(i) =>
                /\ call[i].pc \in {"lock_skipped", "inc_skipped", "skipped"}
                      => OverThreshold(i)
                /\ call[i].pc \in {"extract", "lock_output", "write",
                                   "lock_processed", "inc_processed", "processed"}
                      => ~OverThreshold(i)

C9_Witness ==
    /\ ~include_all
    /\ \E i, j \in Candidates :
         /\ NotBinary(i)
         /\ RunsLen(FileOf(i).content) * threshold_mb.den
               = threshold_mb.num * BytesPerMb
         /\ call[i].pc = "processed"
         /\ NotBinary(j)
         /\ RunsLen(FileOf(j).content) = RunsLen(FileOf(i).content) + 1
         /\ call[j].pc = "skipped"

\* C10: with include_all set, the binary rule and the size rule are never
\* applied: no candidate is skipped and skipped_files stays 0, and a run that
\* returns Ok has written one record per candidate and counted every
\* candidate as processed, a file with a binary extension and a file over the
\* threshold included; only the path-only exclusion removes files (here
\* Node_Modules/lib.js and the empty file).
C10_IncludeAllBypassesRules ==
    include_all =>
        /\ skipped_files = 0
        /\ \A i \in Candidates :
             call[i].pc \notin {"lock_skipped", "inc_skipped", "skipped"}
        /\ (pcMain \in {"process", "flush"} \/ ReturnedOk) =>
             { files[i] : i \in 1..Len(files) } = tree \ {"lib", "empty"}
        /\ ReturnedOk =>
             /\ processed_files = Len(files)
             /\ \A i \in Candidates : PartsOf(i) = WholeRecord

C10_Witness ==
    /\ include_all
    /\ ReturnedOk
    /\ processed_files = 2
    /\ \E i, j \in Candidates :
         /\ files[i] = "photo"
         /\ HasBinaryExtension("photo.PNG")
         /\ files[j] = "over"
         /\ OverThreshold(j)

\* ---------------------------------------------------- is_binary_file alone

\* byte values: NUL, a control character, tab, a letter
SampleBytes == { 0, 1, 9, 97 }

\* run lengths: small ones, 30% of 10 and of 8192 from both sides, and the
\* sample window from both sides
RunCounts == { 1, 3, 7, 2457, 2458, 5734, 8191, 8192 }

RunsUpTo(k) ==
    UNION { [1..n -> [b : SampleBytes, n : RunCounts]] : n \in 0..k }

\* what follows the bytes in a longer file
Tails == { << >>, << [b |-> 0, n |-> 1] >>, << [b |-> 1, n |-> 8192] >> }

InitBinary ==
    /\ NoPipeline
    /\ arg \in [ name : { "notes", "edge.txt" }, content : RunsUpTo(MaxRuns),
                 tail : Tails, readable : BOOLEAN ]
    /\ ret = << >>
    /\ at = "is_binary_file"

\* is_binary_file(path) on the file and on the file followed by the tail
IsBinaryFileCall ==
    /\ at = "is_binary_file"
    /\ ret' = [ verdict |-> IsBinaryFile(arg.name, arg.content, arg.readable),
                longer  |-> IsBinaryFile(arg.name, arg.content \o arg.tail,
                                         arg.readable) ]
    /\ at' = "returned"
    /\ UNCHANGED << Pipeline, arg >>

NextBinary == IsBinaryFileCall

SpecBinary == InitBinary /\ [][NextBinary]_vars

RECURSIVE Window(_, _)
\* the first k bytes of a content, as runs
Window(runs, k) ==
    IF k <= 0 \/ runs = << >> THEN << >>
    ELSE << [b |-> runs[1].b, n |-> IF runs[1].n < k THEN runs[1].n ELSE k] >>
         \o Window(SubSeq(runs, 2, Len(runs)), k - runs[1].n)

RECURSIVE CountWhere(_, _)
\* the number of bytes of a content whose value is in the set
CountWhere(runs, values) ==
    IF runs = << >> THEN 0
    ELSE (IF runs[1].b \in values THEN runs[1].n ELSE 0)
         + CountWhere(SubSeq(runs, 2, Len(runs)), values)

ControlCharacters == (0..31) \ { 9, 10, 13 }

\* C11: for a file without a known binary extension, the verdict of
\* is_binary_file depends only on the first 8192 bytes: true when they hold
\* a NUL byte; false when they hold none and at most 30% of them are control
\* characters (below 32, not tab, line-feed, carriage-return); true when
\* that share exceeds 30%; false when the file cannot be read; and bytes
\* after the first 8192 never change the verdict (so that the same bytes
\* always give the same verdict).
C11_SampleDecidesVerdict ==
    (at = "returned" /\ ~HasBinaryExtension(arg.name)) =>
        LET sample  == Window(arg.content, 8192)
            len     == CountWhere(sample, 0..255)
            nul     == CountWhere(sample, {0}) > 0
            control == CountWhere(sample, ControlCharacters)
        IN  /\ ~arg.readable => ret.verdict = FALSE
            /\ (arg.readable /\ nul) => ret.verdict = TRUE
            /\ (arg.readable /\ ~nul /\ 10 * control <= 3 * len)
                  => ret.verdict = FALSE
            /\ (arg.readable /\ ~nul /\ 10 * control > 3 * len)
                  => ret.verdict = TRUE
            /\ CountWhere(arg.content, 0..255) >= 8192
                  => ret.longer = ret.verdict

C11_Witness ==
    /\ at = "returned"
    /\ arg.readable
    /\ arg.content = << [b |-> 1, n |-> 2457], [b |-> 97, n |-> 8192] >>
    /\ arg.tail = << [b |-> 0, n |-> 1] >>
    /\ ret.verdict = FALSE
    /\ ret.longer = FALSE

\* ---------------------------------------------------------------------
\* should_exclude_file as a function of one path, and the walk's filter

Names == { "src", "Build", "main.rs", ".DS_Store", ".ds_store" }

Separators == { "/", "\\" }

\* strings of at most k tokens that end in a name and do not start at "/"
PathStrings(k) ==
    { str \in UNION { [1..n -> Names \cup Separators] : n \in 1..k } :
        /\ str[Len(str)] \in Names
        /\ str[1] # "/"
        /\ \A j \in 1..(Len(str) - 1) :
              ~(str[j] \in Names /\ str[j + 1] \in Names) }

\* the roots a walk starts from; << >> is a call on the bare relative path
Roots == { << >>, << "home", "proj" >>, << "build", "proj" >> }

\* what the file system holds at the path when it is checked
Files == { [exists |-> TRUE, size |-> 0], [exists |-> TRUE, size |-> 50],
           [exists |-> FALSE, size |-> 0] }

\* the path WalkDir yields for the entry rel below root
EntryPath(root, rel) ==
    IF root = << >> THEN rel ELSE PathString(root) \o << "/" >> \o rel

InitExclude ==
    /\ NoPipeline
    /\ arg \in [ root : Roots, other : Roots \ { << >> },
                 rel : PathStrings(MaxTokens), file : Files ]
    /\ ret = << >>
    /\ at = "should_exclude_file"

\* the filter of the walk on the entry below root and on the same entry
\* below the other root
ShouldExcludeFileCall ==
    /\ at = "should_exclude_file"
    /\ ret' = [ verdict |-> ShouldExcludeFile(EntryPath(arg.root, arg.rel),
                                arg.file.exists, arg.file.size),
                moved   |-> ShouldExcludeFile(EntryPath(arg.other, arg.rel),
                                arg.file.exists, arg.file.size) ]
    /\ at' = "returned"
    /\ UNCHANGED << Pipeline, arg >>

NextExclude == ShouldExcludeFileCall

SpecExclude == InitExclude /\ [][NextExclude]_vars

\* the components of a path string, as pairs of first and last token:
\* the maximal stretches between "/" separators
Components(str) ==
    { c \in (1..Len(str)) \X (1..Len(str)) :
        /\ c[1] <= c[2]
        /\ \A k \in c[1]..c[2] : str[k] # "/"
        /\ c[1] = 1 \/ str[c[1] - 1] = "/"
        /\ c[2] = Len(str) \/ str[c[2] + 1] = "/" }

\* some directory segment of the path is, ignoring case, an excluded name
HasExcludedSegment(str) ==
    \E c \in Components(str) :
        c[2] < Len(str) /\ c[1] = c[2] /\ ToLower(str[c[1]]) \in ExcludedDirs

\* the final component of the path is exactly an excluded file name
HasExcludedName(str) ==
    \E c \in Components(str) :
        c[2] = Len(str) /\ c[1] = c[2] /\ str[c[1]] \in ExcludedPatterns

\* C12: should_exclude_file returns true for every path with a directory
\* segment equal, ignoring case, to an excluded directory name (at the
\* start of the path or between separators), and for every path whose final
\* component is exactly an excluded file name; for a path with neither that
\* names an existing non-empty file it returns false.
C12_ExcludedExactlyByNames ==
    at = "returned" =>
        LET str == EntryPath(arg.root, arg.rel)
        IN  /\ HasExcludedSegment(str) => ret.verdict = TRUE
            /\ HasExcludedName(str) => ret.verdict = TRUE
            /\ ( /\ ~HasExcludedSegment(str)
                 /\ ~HasExcludedName(str)
                 /\ arg.file.exists
                 /\ arg.file.size > 0 ) => ret.verdict = FALSE

\* the pipeline, or the filter of the walk on one entry
SpecEmpty == (Init \/ InitExclude) /\ [][Next \/ NextExclude]_vars

\* C13: a file of length zero, and a path that does not exist when it is
\* checked, is excluded by should_exclude_file whatever its name, extension
\* or content and whether or not include_all is set: it is never a
\* candidate and no piece of a record for it is written to the output.
C13_EmptyOrMissingExcluded ==
    /\ (at = "returned" /\ (~arg.file.exists \/ arg.file.size = 0)) =>
           ret.verdict = TRUE
    /\ \A id \in tree :
           RunsLen(Catalogue(threshold_mb)[id].content) = 0 =>
               /\ \A i \in 1..Len(files) : files[i] # id
               /\ \A k \in 1..Len(out) : out[k].file # id

C13_Witness ==
    /\ ReturnedOk
    /\ include_all
    /\ tree = { "empty", "readme" }
    /\ files = << "readme" >>
    /\ Len(out) = 3

C13_WitnessMissing ==
    /\ at = "returned"
    /\ ~arg.file.exists
    /\ arg.rel = << "src", "/", "main.rs" >>
    /\ arg.root = << "home", "proj" >>
    /\ ret.verdict = TRUE

\* ---------------------------------------------------------------------
\* one run on a root holding README.md (50 bytes of text),
\* node_modules/lib.js, photo.png and big.log (2 MB of text), with the
\* default threshold and without --include-all

ScenarioIds == { "readme", "libjs", "png", "biglog" }

InitScenario ==
    /\ tree = ScenarioIds
    /\ threshold_mb = [num |-> 1, den |-> 10]
    /\ include_all = FALSE
    /\ pcMain = "create"
    /\ result = "none"
    /\ files = << >>
    /\ call = << >>
    /\ full = FALSE
    /\ output_lock = NoCall
    /\ processed_lock = NoCall
    /\ skipped_lock = NoCall
    /\ processed_files = 0
    /\ skipped_files = 0
    /\ out = << >>
    /\ flushes = 0
    /\ stdout = << >>
    /\ extractFailed = << >>
    /\ sampleFailed = << >>
    /\ errors = {}
    /\ startedAtErr = {}
    /\ outAtErr = << >>
    /\ arg = << >>
    /\ ret = << >>
    /\ at = "pipeline"

SpecScenario == InitScenario /\ [][Next]_vars

\* the candidate that stands for the file id, 0 when it is no candidate
CandidateOf(id) ==
    IF \E i \in 1..Len(files) : files[i] = id
    THEN CHOOSE i \in 1..Len(files) : files[i] = id
    ELSE 0

\* C14: a run with the default threshold and include_all not set, on a
\* root holding README.md (text, 50 bytes), node_modules/lib.js (text),
\* photo.png and big.log (2 MB), writes exactly one record, the one of
\* README.md: node_modules/lib.js is excluded by path (never a candidate),
\* photo.png is skipped for its extension and big.log for its size.
C14_OnlyReadmeWritten ==
    /\ \A k \in 1..Len(out) : out[k].file = "readme"
    /\ (pcMain \in {"process", "flush"} \/ ReturnedOk) =>
           files = << "readme", "png", "biglog" >>
    /\ ReturnedOk =>
           /\ [k \in 1..Len(out) |-> out[k].part] = WholeRecord
           /\ out[1].size = 50
           /\ call[CandidateOf("png")].pc = "skipped"
           /\ HasBinaryExtension("photo.png")
           /\ ~IsOversize(50, ThresholdBytes(threshold_mb))
           /\ call[CandidateOf("biglog")].pc = "skipped"
           /\ ~IsBinaryFile("big.log", Text(2 * BytesPerMb), TRUE)
           /\ OverThreshold(CandidateOf("biglog"))
           /\ processed_files = 1
           /\ skipped_files = 2

C14_Witness ==
    /\ tree = ScenarioIds
    /\ ReturnedOk
    /\ Len(out) = 3
    /\ out[2].file = "readme"
    /\ skipped_files = 2

\* ---------------------------------------------------------------------

\* C15: if discovery yields zero candidates, the run prints that no files
\* were found and returns Ok at once: no closure call is started, nothing is
\* appended to the output file that Create made, and the run stays so.
C15_NoCandidatesReturnsOk ==
    /\ [][ (pcMain = "discover" /\ files' = << >>) =>
              /\ pcMain' = "returned"
              /\ result' = "ok"
              /\ stdout' = << "No files found to process" >>
              /\ call' = << >>
              /\ out' = << >>
              /\ flushes' = 0 ]_vars
    /\ []( "No files found to process" \in { stdout[k] : k \in 1..Len(stdout) } =>
              /\ ReturnedOk
              /\ files = << >>
              /\ Started = {}
              /\ out = << >>
              /\ processed_files = 0 /\ skipped_files = 0 )

C15_Witness ==
    /\ tree = { "lib", "empty" }
    /\ ReturnedOk
    /\ files = << >>
    /\ stdout = << "No files found to process" >>
    /\ out = << >>

\* ---------------------------------------------------------------------
\* main(): the checks made before the conversion starts

\* what main() is started on: whether args.path is absolute, whether
\* env::current_dir() succeeds, what lies at the root path, whether the root
\* has a final component to name the repository by, whether File::create
\* can make the output file, and whether a file was already there
MainInputs ==
    [ absolute : BOOLEAN, cwd_ok : BOOLEAN, root : { "missing", "file", "dir" },
      named : BOOLEAN, creatable : BOOLEAN, had_output : BOOLEAN,
      debug : BOOLEAN ]

\* the output file before main() runs
OutputBefore(in) == IF in.had_output THEN "old" ELSE "absent"

InitMain ==
    /\ NoPipeline
    /\ arg \in MainInputs
    /\ ret = [ exit |-> "none", output |-> OutputBefore(arg), walked |-> FALSE,
               stderr |-> "" ]
    /\ at = "main"

\* main() returns Err: the process prints the error and exits with status 1
MainFails(message) ==
    /\ ret' = [ret EXCEPT !.exit = 1, !.stderr = message]
    /\ at' = "returned"

\* a validation that lets every root through
RootErrorNone(root) == ""

\* the two checks of the root, main.rs:58-64
RootError(root) ==
    IF root = "missing" THEN "Path does not exist"
    ELSE IF root # "dir" THEN "Path is not a directory"
    ELSE ""

\* main.rs:51-56
MainResolve ==
    /\ at = "main"
    /\ IF arg.absolute \/ arg.cwd_ok
       THEN at' = "validate" /\ ret' = ret
       ELSE MainFails("current_dir")
    /\ UNCHANGED << Pipeline, arg >>

\* main.rs:58-64
MainValidate ==
    /\ at = "validate"
    /\ IF RootError(arg.root) = ""
       THEN at' = "repo_name" /\ ret' = ret
       ELSE MainFails(RootError(arg.root))
    /\ UNCHANGED << Pipeline, arg >>

\* get_repo_name(&repo_path)?, main.rs:66 and utils.rs:7-37
MainRepoName ==
    /\ at = "repo_name"
    /\ IF arg.named
       THEN at' = "create" /\ ret' = ret
       ELSE MainFails("Could not determine repository directory name")
    /\ UNCHANGED << Pipeline, arg >>

\* fs::File::create(output_path)?, the first statement of the conversion
MainCreate ==
    /\ at = "create"
    /\ IF arg.creatable
       THEN at' = "walk" /\ ret' = [ret EXCEPT !.output = "empty"]
       ELSE MainFails("create")
    /\ UNCHANGED << Pipeline, arg >>

\* the WalkDir traversal
MainWalk ==
    /\ at = "walk"
    /\ at' = "convert"
    /\ ret' = [ret EXCEPT !.walked = TRUE]
    /\ UNCHANGED << Pipeline, arg >>

\* the rest of the conversion: records may be written, and it returns Ok
\* or an I/O error
MainConvert ==
    /\ at = "convert"
    /\ \E written \in { "empty", "records" }, ok \in BOOLEAN :
         /\ at' = "returned"
         /\ ret' = [ret EXCEPT !.output = written,
                               !.exit = IF ok THEN 0 ELSE 1,
                               !.stderr = IF ok THEN "" ELSE "io"]
    /\ UNCHANGED << Pipeline, arg >>

NextMain ==
    \/ MainResolve
    \/ MainValidate
    \/ MainRepoName
    \/ MainCreate
    \/ MainWalk
    \/ MainConvert

SpecMain == InitMain /\ [][NextMain]_vars

\* C16: started on a root path that does not exist, main() fails (exit
\* status 1) and the output file is neither created nor touched; the root
\* is validated, and an output path that cannot be created is reported,
\* before the traversal: a run that walks has a directory for its root and
\* has created its output file, and a run that cannot create it never walks.
C16_MissingRootFailsBeforeOutput ==
    /\ arg.root = "missing" =>
           /\ at \notin { "repo_name", "create", "walk", "convert" }
           /\ ret.output = OutputBefore(arg)
           /\ ~ret.walked
           /\ at = "returned" => ret.exit = 1
    /\ at \in { "walk", "convert" } \/ ret.walked =>
           /\ arg.root = "dir"
           /\ arg.creatable
           /\ ret.output \in { "empty", "records" }
    /\ (at = "returned" /\ ret.stderr = "create") =>
           /\ ret.exit = 1
           /\ ~ret.walked
           /\ ret.output = OutputBefore(arg)

C16_Witness ==
    /\ at = "returned"
    /\ arg.root = "missing"
    /\ arg.absolute
    /\ arg.creatable
    /\ ~arg.had_output
    /\ ret.exit = 1
    /\ ret.stderr = "Path does not exist"
    /\ ret.output = "absent"

\* ---------------------------------------------------------------------
\* two runs of the conversion, one after the other, on one tree with one
\* configuration; every file operation succeeds

\* the configuration and the surroundings of both runs: the tree, the two
\* flags, whether the working directory is the root, and the lines perf.log
\* holds before the first run (0: there is no perf.log)
TwiceInputs ==
    [ tree : { t \in SUBSET FileIds : Cardinality(t) <= MaxFiles },
      include_all : BOOLEAN, profile : BOOLEAN, cwd_in_root : BOOLEAN,
      perf_before : 0..1 ]

\* Timer::log_to_file: one line is appended to perf.log, perf.rs:21-32
LogToFile(lines) == lines + 1

\* Timer::print_elapsed on a timer that exists only under --profile
PrintElapsed(profile, lines) == IF profile THEN LogToFile(lines) ELSE lines

\* the regular files WalkDir meets below the root: those of the tree and,
\* when the working directory is the root, the output file (default name,
\* main.rs:69) and perf.log with one byte for each of its lines
Entries(in, output_size, lines) ==
    { [ name |-> Catalogue(Thresholds0)[id].path[Len(Catalogue(Thresholds0)[id].path)],
        path |-> Catalogue(Thresholds0)[id].path,
        content |-> Catalogue(Thresholds0)[id].content ] : id \in in.tree }
    \cup (IF in.cwd_in_root
          THEN { [ name |-> "proj.textify.txt", path |-> << "proj.textify.txt" >>,
                   content |-> IF output_size = 0 THEN << >>
                               ELSE Text(output_size) ] }
          ELSE {})
    \cup (IF in.cwd_in_root /\ lines > 0
          THEN { [ name |-> "perf.log", path |-> << "perf.log" >>,
                   content |-> Text(lines) ] }
          ELSE {})

\* the candidates of a walk, core.rs:41-47
Kept(entries) ==
    { e \in entries :
        ~ShouldExcludeFile(PathString(repo_path \o e.path), TRUE,
                           RunsLen(e.content)) }

\* the records the closure calls write for the candidates, as name and size
Records(in, found) ==
    { [file |-> e.name, size |-> RunsLen(e.content)] :
        e \in { c \in found :
                  ~ShouldSkip(in.include_all,
                              IsBinaryFile(c.name, c.content, TRUE),
                              RunsLen(c.content),
                              ThresholdBytes(Thresholds0)) } }

InitTwice ==
    /\ NoPipeline
    /\ arg \in TwiceInputs
    /\ ret = [ run |-> 1, perf |-> arg.perf_before, output |-> 0,
               found |-> {}, records |-> << {}, {} >> ]
    /\ at = "create"

\* fs::File::create(output_path)?: the output file is there and empty
TwiceCreate ==
    /\ at = "create"
    /\ ret' = [ret EXCEPT !.output = 0]
    /\ at' = "walk"
    /\ UNCHANGED << Pipeline, arg >>

\* the walk, the print of the discovery timer and the empty check,
\* core.rs:41-56
TwiceDiscover ==
    /\ at = "walk"
    /\ LET found == Kept(Entries(arg, ret.output, ret.perf))
       IN  /\ ret' = [ret EXCEPT !.found = found,
                                 !.perf = PrintElapsed(arg.profile, @),
                                 !.records[ret.run] = {}]
           /\ at' = IF found = {} THEN "end" ELSE "process"
    /\ UNCHANGED << Pipeline, arg >>

\* try_for_each and the print of the processing timer, core.rs:77-154
TwiceProcess ==
    /\ at = "process"
    /\ ret' = [ret EXCEPT !.records[ret.run] = Records(arg, ret.found),
                          !.output = Cardinality(Records(arg, ret.found)),
                          !.perf = PrintElapsed(arg.profile, @)]
    /\ at' = "flush"
    /\ UNCHANGED << Pipeline, arg >>

\* the flush and the prints of the flush timer and of the total timer,
\* core.rs:163-187
TwiceFlush ==
    /\ at = "flush"
    /\ ret' = [ret EXCEPT
                 !.perf = PrintElapsed(arg.profile,
                                       PrintElapsed(arg.profile, @))]
    /\ at' = "end"
    /\ UNCHANGED << Pipeline, arg >>

\* the run has returned Ok: the second run starts, or both are done
TwiceNext ==
    /\ at = "end"
    /\ IF ret.run = 1
       THEN at' = "create" /\ ret' = [ret EXCEPT !.run = 2]
       ELSE at' = "done" /\ ret' = ret
    /\ UNCHANGED << Pipeline, arg >>

NextTwice ==
    \/ TwiceCreate
    \/ TwiceDiscover
    \/ TwiceProcess
    \/ TwiceFlush
    \/ TwiceNext

SpecTwice == InitTwice /\ [][NextTwice]_vars

\* C17: two runs in a row on a tree that nothing else changes, with the
\* same root, output path, threshold, include_all, debug and profile flags,
\* leave two outputs with the same multiset of records.
C17_TwoRunsSameRecords ==
    at = "done" => ret.records[1] = ret.records[2]

\* ---------------------------------------------------------------------
\* format_file_size
\*
\* A size is written in base 1024: limbs[i] counts 1024^(i-1), every limb
\* but the last is below 1024. The sizes drawn are below 2^53, so `size as
\* f64` is exact, and so is every division by 1024.0: the f64 is the limbs
\* with a point, worth the sum of limbs[i] * 1024^(i-1-point).

UNITS == << "B", "KB", "MB", "GB" >>

\* the sizes format_file_size is called on
Sizes ==
    { << l0, l1, l2, l3 >> :
        l0 \in { 0, 1, 256, 512, 768, 972, 1023 }, l1 \in { 0, 1, 1023 },
        l2 \in { 0, 1, 1023 }, l3 \in { 0, 1, 1023, 1024, 1500 } }

RECURSIVE Pow1024(_)
Pow1024(k) == IF k = 0 THEN 1 ELSE 1024 * Pow1024(k - 1)

\* size >= 1024.0
AtLeast1024(x) ==
    \/ \E i \in (x.point + 2)..Len(x.limbs) : x.limbs[i] > 0
    \/ x.limbs[x.point + 1] >= 1024

\* a scaling that divides once at most
ScaleOnce(x, unit_index) ==
    IF AtLeast1024(x) /\ unit_index < Len(UNITS) - 1 /\ unit_index = 0
    THEN [size |-> [x EXCEPT !.point = @ + 1], unit_index |-> unit_index + 1]
    ELSE [size |-> x, unit_index |-> unit_index]

RECURSIVE Scale(_, _)
\* the while loop, utils.rs:45-48
Scale(x, unit_index) ==
    IF AtLeast1024(x) /\ unit_index < Len(UNITS) - 1
    THEN Scale([x EXCEPT !.point = @ + 1], unit_index + 1)
    ELSE [size |-> x, unit_index |-> unit_index]

RECURSIVE LimbsValue(_, _, _)
\* the worth of limbs[from..to], limbs[from] counting 1
LimbsValue(limbs, from, to) ==
    IF from > to THEN 0
    ELSE limbs[from] + 1024 * LimbsValue(limbs, from + 1, to)

\* the integer part of the f64
Whole(x) == LimbsValue(x.limbs, x.point + 1, Len(x.limbs))

\* the f64 printed with {:.1}: the exact value rounded to one decimal,
\* a tie going to the even digit
OneDecimal(x) ==
    IF x.point = 0 THEN [whole |-> Whole(x), tenth |-> 0]
    ELSE LET E       == Pow1024(x.point - 1)
             D       == 1024 * E
             t       == x.limbs[x.point]
             R       == LimbsValue(x.limbs, 1, x.point - 1)
             n       == (t * 10) + ((R * 10) \div E)
             rem     == ((n % 1024) * E) + ((R * 10) % E)
             down    == n \div 1024
             half    == D \div 2
             up      == rem > half \/ (rem = half /\ down % 2 = 1)
             rounded == IF up THEN down + 1 ELSE down
         IN  IF rounded = 10
             THEN [whole |-> Whole(x) + 1, tenth |-> 0]
             ELSE [whole |-> Whole(x), tenth |-> rounded]

\* format_file_size, utils.rs:40-55
FormatFileSize(limbs) ==
    LET scaled == Scale([limbs |-> limbs, point |-> 0], 0)
    IN  IF scaled.unit_index = 0
        THEN ToString(Whole(scaled.size)) \o " " \o UNITS[scaled.unit_index + 1]
        ELSE ToString(OneDecimal(scaled.size).whole) \o "."
             \o ToString(OneDecimal(scaled.size).tenth) \o " "
             \o UNITS[scaled.unit_index + 1]

InitFormat ==
    /\ NoPipeline
    /\ arg \in Sizes
    /\ ret = << >>
    /\ at = "format_file_size"

FormatFileSizeCall ==
    /\ at = "format_file_size"
    /\ ret' = FormatFileSize(arg)
    /\ at' = "returned"
    /\ UNCHANGED << Pipeline, arg >>

NextFormat == FormatFileSizeCall

SpecFormat == InitFormat /\ [][NextFormat]_vars

\* the size drawn is this many bytes
IsBytes(limbs, n) ==
    limbs = << n % 1024, (n \div 1024) % 1024, (n \div 1048576) % 1024,
               n \div 1073741824 >>

\* the unit the claim gives a size: the first in which it is below 1024,
\* GB at most
UnitOf(limbs) ==
    IF limbs[4] > 0 THEN 3 ELSE IF limbs[3] > 0 THEN 2
    ELSE IF limbs[2] > 0 THEN 1 ELSE 0

\* C18: format_file_size uses the units B, KB, MB, GB to base 1024: a size
\* below 1024 is printed as the integer and " B" without a decimal; any
\* other size is divided by 1024 until it is below 1024 or the unit is GB,
\* and printed with exactly one decimal (the value to within a tenth); so
\* 0 gives "0 B", 512 "512 B", 1024 "1.0 KB", 1536 "1.5 KB", 1048576
\* "1.0 MB" and 1073741824 "1.0 GB".
C18_FormatFileSize ==
    at = "returned" =>
        LET u == UnitOf(arg)
            W == arg[u + 1]
            t == IF u = 0 THEN 0 ELSE arg[u]
        IN  /\ u = 0 => ret = ToString(arg[1]) \o " B"
            /\ u > 0 =>
                  \E w \in { W, W + 1 }, d \in 0..9 :
                      /\ ret = ToString(w) \o "." \o ToString(d) \o " "
                               \o UNITS[u + 1]
                      /\ w = W => /\ (10 * t) \div 1024 <= d
                                  /\ d <= ((10 * (t + 1)) \div 1024) + 1
                      /\ w = W + 1 => (d = 0 /\ t >= 972)
            /\ IsBytes(arg, 0) => ret = "0 B"
            /\ IsBytes(arg, 512) => ret = "512 B"
            /\ IsBytes(arg, 1024) => ret = "1.0 KB"
            /\ IsBytes(arg, 1536) => ret = "1.5 KB"
            /\ IsBytes(arg, 1048576) => ret = "1.0 MB"
            /\ IsBytes(arg, 1073741824) => ret = "1.0 GB"

C18_Witness ==
    /\ at = "returned"
    /\ IsBytes(arg, 1536)
    /\ ret = "1.5 KB"

\* a size of 1024 GB and more stays in GB
C18_WitnessGb ==
    /\ at = "returned"
    /\ arg = << 0, 0, 0, 1024 >>
    /\ ret = "1024.0 GB"

\* ---------------------------------------------------------------------

\* C19: whether a file the walk meets is excluded depends only on its path
\* relative to the root, not on where the root lies: the same entry below
\* two roots at different absolute places (one of them below a directory
\* named build) gets the same verdict, so that both runs have the same
\* candidates and write the same records.
C19_VerdictIgnoresRootLocation ==
    (at = "returned" /\ arg.root # << >>) => ret.verdict = ret.moved

\* ---------------------------------------------------------------------

\* the locks the closure call of candidate i holds
LocksHeld(i) ==
    { l \in { "output", "processed", "skipped" } :
        \/ l = "output" /\ output_lock = i
        \/ l = "processed" /\ processed_lock = i
        \/ l = "skipped" /\ skipped_lock = i }

\* the steps the closure call c has still to take, at most
CallRank(c) ==
    CASE c.pc = "unstarted"      -> 12
      [] c.pc = "metadata"       -> 11
      [] c.pc = "classify"       -> 10
      [] c.pc = "extract"        -> 9
      [] c.pc = "lock_output"    -> 8
      [] c.pc = "write"          -> 7 - c.sent
      [] c.pc = "lock_processed" -> 2
      [] c.pc = "inc_processed"  -> 1
      [] c.pc = "lock_skipped"   -> 2
      [] c.pc = "inc_skipped"    -> 1
      [] OTHER                   -> 0

RECURSIVE CallsRank(_)
CallsRank(i) == IF i = 0 THEN 0 ELSE CallRank(call[i]) + CallsRank(i - 1)

\* the steps the run has still to take, at most
RunRank ==
    CASE pcMain = "create"   -> 12 * Cardinality(tree) + 4
      [] pcMain = "discover" -> 12 * Cardinality(tree) + 3
      [] pcMain = "process"  -> CallsRank(Len(call)) + 2
      [] pcMain = "flush"    -> 1
      [] OTHER               -> 0

\* every step of the run but Discover, which has no guard but its place
OtherSteps ==
    \/ Create
    \/ Join
    \/ Flush
    \/ \E i \in Candidates :
          \/ Take(i) \/ Metadata(i) \/ Classify(i)
          \/ LockSkipped(i) \/ IncSkipped(i)
          \/ Extract(i) \/ LockOutput(i) \/ Write(i)
          \/ LockProcessed(i) \/ IncProcessed(i)

\* C20: no closure call holds more than one of the three locks at a time,
\* and a lock is held only inside its own critical section (it is released
\* before another is taken and before the call returns); no state before
\* the return is stuck; and every step brings the run nearer to its end, so
\* that every run whose file operations return terminates, with every
\* candidate handled or with an error returned.
C20_OneLockAtATimeAndTermination ==
    /\ []( \A i \in Candidates :
              /\ Cardinality(LocksHeld(i)) <= 1
              /\ output_lock = i <=> call[i].pc = "write"
              /\ processed_lock = i <=> call[i].pc = "inc_processed"
              /\ skipped_lock = i <=> call[i].pc = "inc_skipped" )
    /\ []( { output_lock, processed_lock, skipped_lock }
              \subseteq Candidates \cup { NoCall } )
    /\ []( pcMain \notin { "discover", "returned" } => ENABLED OtherSteps )
    /\ []( RunRank >= 0 )
    /\ [][ RunRank' < RunRank ]_vars
    /\ []( ReturnedOk =>
              \A i \in Candidates : call[i].pc \in { "processed", "skipped" } )
    /\ []( pcMain = "returned" =>
              /\ result \in { "ok", "err" }
              /\ output_lock = NoCall
              /\ processed_lock = NoCall
              /\ skipped_lock = NoCall )

\* one call is in the output section while another is in a counter section
C20_Witness ==
    \E i, j \in Candidates :
        /\ i # j
        /\ output_lock = i
        /\ call[i].pc = "write"
        /\ skipped_lock = j
        /\ call[j].pc = "inc_skipped"

====
